---- MODULE Spec2Model ----
(***************************************************************************)
(* Model of the CSV statistics pipeline:                                   *)
(*   process_data  (src/src/data_processing.rs)                            *)
(*   create_charts (src/src/visualization.rs)                              *)
(* One invocation reads one column of a CSV file, computes its mean and    *)
(* sample variance and draws a two-bar SVG chart.  f64 values are modelled *)
(* as exact fractions <<num, den>>; a denominator 0 stands for the f64     *)
(* results of a division by zero (NaN = <<0,0>>, +-inf = <<+-1,0>>).       *)
(***************************************************************************)
EXTENDS Integers, Sequences, FiniteSets, TLC

\* ------------------------------------------------------------------ bounds
MaxLen == 3
MaxNeg == 1
MaxVal == 2

\* ------------------------------------------------------- program constants
ddof == 1
HeadroomNum == 6
HeadroomDen == 5
BarHalfWidthDen == 4

\* ------------------------------------------------------------- fractions
Abs(a) == IF a < 0 THEN -a ELSE a

Sign(a) == IF a < 0 THEN -1 ELSE IF a = 0 THEN 0 ELSE 1

RECURSIVE Gcd(_, _)
Gcd(a, b) == IF b = 0 THEN a ELSE Gcd(b, a % b)

\* The f64 value num/den in lowest terms with a positive denominator;
\* x/0 is NaN (x = 0) or an infinity.
F64(num, den) ==
    IF den = 0 THEN <<Sign(num), 0>>
    ELSE LET g == Gcd(Abs(num), Abs(den))
             s == Sign(den)
         IN  <<(s * num) \div g, (s * den) \div g>>

Zero == <<0, 1>>

IsNaN(x) == x = <<0, 0>>

IsFinite(x) == x[2] # 0

\* IEEE comparison: false as soon as one side is NaN.
F64Le(x, y) ==
    /\ ~IsNaN(x)
    /\ ~IsNaN(y)
    /\ IF x[2] = 0 /\ y[2] = 0 THEN x[1] <= y[1]
       ELSE IF x[2] = 0 THEN x[1] < 0
       ELSE IF y[2] = 0 THEN y[1] > 0
       ELSE x[1] * y[2] <= y[1] * x[2]

F64Lt(x, y) == F64Le(x, y) /\ x # y

\* f64::max: the other operand when one is NaN.
F64Max(x, y) ==
    IF IsNaN(x) THEN y
    ELSE IF IsNaN(y) THEN x
    ELSE IF F64Le(x, y) THEN y ELSE x

F64Mul(x, y) ==
    IF x[2] = 0 \/ y[2] = 0
    THEN <<Sign(x[1]) * Sign(y[1]), 0>>
    ELSE F64(x[1] * y[1], x[2] * y[2])

\* --------------------------------------------------------------- the CSV
\* A cell of the CSV column: a number, a text that is no number, or an
\* empty cell.
Values == -MaxNeg..MaxVal

Num(v) == [kind |-> "num", val |-> v]

Text == [kind |-> "text", val |-> 0]

Empty == [kind |-> "empty", val |-> 0]

Cells == {Num(v) : v \in Values} \cup {Text, Empty}

NumCol(s) == [i \in 1..Len(s) |-> Num(s[i])]

ExampleColumns == {NumCol(<<1, 2, 3, 4, 5>>), NumCol(<<10, 20, 30, 40>>)}

Columns == UNION {[1..k -> Cells] : k \in 0..MaxLen} \cup ExampleColumns

HeaderName == "score"

ColumnNames == {HeaderName, "other"}

\* ------------------------------------------------------- polars operators
\* Series::cast(&Float64): the non-strict cast; a cell that is no number
\* becomes a null (valid = FALSE), it is no error.
cast(series) ==
    [i \in 1..Len(series) |->
        [valid |-> series[i].kind = "num", val |-> series[i].val]]

RECURSIVE SumValid(_)
SumValid(s) ==
    IF s = << >> THEN 0
    ELSE (IF s[1].valid THEN s[1].val ELSE 0) + SumValid(Tail(s))

RECURSIVE null_count(_)
null_count(s) ==
    IF s = << >> THEN 0
    ELSE (IF s[1].valid THEN 0 ELSE 1) + null_count(Tail(s))

n_values(s) == Len(s) - null_count(s)

\* Option<f64> as a sequence of length 0 (None) or 1 (Some).
None == << >>

Some(x) == <<x>>

\* Series::mean(): None without a non-null value, else sum / count of the
\* non-null values.
mean(s) ==
    IF n_values(s) = 0 THEN None
    ELSE Some(F64(SumValid(s), n_values(s)))

\* Sum over the non-null values of (value - m)^2, m = <<p, q>>, as the
\* numerator over the common denominator q^2.
RECURSIVE SumSquaredNum(_, _)
SumSquaredNum(s, m) ==
    IF s = << >> THEN 0
    ELSE (IF s[1].valid
          THEN (s[1].val * m[2] - m[1]) * (s[1].val * m[2] - m[1])
          ELSE 0) + SumSquaredNum(Tail(s), m)

\* A variance that keeps the value's own square: the mean is not subtracted.
RECURSIVE SumSquaredNumRaw(_, _)
SumSquaredNumRaw(s, m) ==
    IF s = << >> THEN 0
    ELSE (IF s[1].valid
          THEN (s[1].val * m[2]) * (s[1].val * m[2])
          ELSE 0) + SumSquaredNumRaw(Tail(s), m)

\* Series::var with the population divisor n.
var_ddof0(s, d) ==
    IF n_values(s) <= d THEN None
    ELSE LET m == mean(s)[1]
         IN  Some(F64(SumSquaredNum(s, m), m[2] * m[2] * n_values(s)))

\* Series::var that only rejects a ddof above the number of values.
var_loose(s, d) ==
    IF d > n_values(s) THEN None
    ELSE IF mean(s) = None THEN None
    ELSE LET m == mean(s)[1]
         IN  Some(F64(SumSquaredNum(s, m),
                      m[2] * m[2] * (n_values(s) - d)))

\* Series::var without the subtraction of the mean.
var_raw(s, d) ==
    IF n_values(s) <= d THEN None
    ELSE LET m == mean(s)[1]
         IN  Some(F64(SumSquaredNumRaw(s, m),
                      m[2] * m[2] * (n_values(s) - d)))

\* Series::var(ddof): None when there are no more than ddof non-null
\* values, else the two-pass sum of squared deviations / (n - ddof).
var(s, d) ==
    IF n_values(s) <= d THEN None
    ELSE LET m == mean(s)[1]
         IN  Some(F64(SumSquaredNum(s, m),
                      m[2] * m[2] * (n_values(s) - d)))

\* ---------------------------------------------------------- process_data
NoPanic == "none"

Returned(m, v) ==
    [panic |-> NoPanic, summary |-> Some([mean |-> m, variance |-> v])]

Panicked(msg) == [panic |-> msg, summary |-> None]

ProcessPanics ==
    {"Could not read CSV file", "Failed to create DataFrame",
     "Column not found", "Failed to compute mean",
     "Failed to compute variance"}

FileStates == {"readable", "missing", "malformed"}

\* process_data that falls back on the file's only column when the name is
\* not found.
process_data_fallback(file, header, column, column_name) ==
    IF file = "missing" THEN Panicked("Could not read CSV file")
    ELSE IF file = "malformed" THEN Panicked("Failed to create DataFrame")
    ELSE LET series == cast(column)
         IN  IF mean(series) = None THEN Panicked("Failed to compute mean")
             ELSE IF var(series, ddof) = None
                  THEN Panicked("Failed to compute variance")
             ELSE Returned(mean(series)[1], var(series, ddof)[1])

\* The result of process_data(file_path, column_name) on a file that is
\* missing, malformed or readable, and then holds one column `column` under
\* the name `header`.
process_data(file, header, column, column_name) ==
    IF file = "missing" THEN Panicked("Could not read CSV file")
    ELSE IF file = "malformed" THEN Panicked("Failed to create DataFrame")
    ELSE IF column_name # header THEN Panicked("Column not found")
    ELSE LET series == cast(column)
         IN  IF mean(series) = None THEN Panicked("Failed to compute mean")
             ELSE IF var(series, ddof) = None
                  THEN Panicked("Failed to compute variance")
             ELSE Returned(mean(series)[1], var(series, ddof)[1])

\* --------------------------------------------------------- create_charts
\* Elements of the SVG document, in drawing order.
CompleteChart ==
    <<"svg", "background", "caption", "axes", "mean_bar", "variance_bar",
      "legend", "/svg">>

\* A chart left at the output path by an earlier run.
StaleChart == <<"stale">>

Absent == << >>

\* 1.2 * max(mean, variance), with a floor of 1 under the product.
max_value_floor(s) ==
    LET m == F64Mul(F64Max(s.mean, s.variance), F64(HeadroomNum, HeadroomDen))
    IN  IF F64Le(m, Zero) THEN F64(1, 1) ELSE m

\* let max_value = summary.mean.max(summary.variance) * 1.2
max_value(s) ==
    F64Mul(F64Max(s.mean, s.variance), F64(HeadroomNum, HeadroomDen))

\* Rectangle::new([(pos - 0.25, 0.0), (pos + 0.25, value)], ...)
Bar(label, pos, value) ==
    [label |-> label,
     x0 |-> F64(pos * BarHalfWidthDen - 1, BarHalfWidthDen),
     x1 |-> F64(pos * BarHalfWidthDen + 1, BarHalfWidthDen),
     y0 |-> Zero, y1 |-> value]

VARIABLES
    file,          \* state of the CSV file at file_path
    column,        \* the cells under the header of the CSV file
    column_name,   \* the column_name argument of both functions
    output_dir,    \* TRUE iff output/ exists and is writable
    panic_unwind,  \* TRUE iff the build unwinds on panic (the default)
    outfile0,      \* output/<column_name>_summary_chart.svg before the run
    outfile,       \* output/<column_name>_summary_chart.svg now
    pc,            \* position of the invocation
    panic,         \* message of the panic that ended the run, or NoPanic
    summary,       \* Option<DataSummary> returned by process_data
    stdout,        \* lines printed so far
    buffer,        \* the SVGBackend's in-memory document
    axis,          \* the y range of the chart, << >> before it is built
    bars           \* rectangles drawn so far

vars ==
    <<file, column, column_name, output_dir, panic_unwind, outfile0, outfile,
      pc, panic, summary, stdout, buffer, axis, bars>>

inputs == <<file, column, column_name, output_dir, panic_unwind, outfile0>>

Init ==
    /\ file \in FileStates
    /\ column \in Columns
    /\ column_name \in ColumnNames
    /\ output_dir \in BOOLEAN
    /\ panic_unwind \in BOOLEAN
    /\ outfile0 \in {Absent, StaleChart}
    /\ outfile = outfile0
    /\ pc = "process_data"
    /\ panic = NoPanic
    /\ summary = None
    /\ stdout = << >>
    /\ buffer = << >>
    /\ axis = << >>
    /\ bars = << >>

\* impl Drop for SVGBackend: present() closes the open tags and writes the
\* document to the path; its error is dropped (let _ = self.present()).
Drop(buf) == IF output_dir THEN Append(buf, "/svg") ELSE outfile

\* process_data, lines 10-39: panics, or prints two lines and returns.
ProcessData ==
    /\ pc = "process_data"
    /\ LET r == process_data(file, HeaderName, column, column_name)
       IN  /\ panic' = r.panic
           /\ summary' = r.summary
           /\ IF r.panic = NoPanic
              THEN /\ pc' = "create_charts"
                   /\ stdout' = stdout \o
                        <<[line |-> "Mean of", value |-> r.summary[1].mean],
                          [line |-> "Variance of",
                           value |-> r.summary[1].variance]>>
              ELSE /\ pc' = "panicked"
                   /\ stdout' = stdout
    /\ UNCHANGED <<inputs, outfile, buffer, axis, bars>>

\* create_charts, lines 6-9: the output path and the backend; nothing is
\* opened or written yet.
CreateBackend ==
    /\ pc = "create_charts"
    /\ summary # None
    /\ buffer' = <<"svg">>
    /\ pc' = "fill"
    /\ UNCHANGED <<inputs, outfile, panic, summary, stdout, axis, bars>>

\* A drawing call followed by unwrap(): on Ok the element is in the buffer;
\* on Err the thread panics and, when unwinding, the backend is dropped.
Unwrap(ok, element, next, message) ==
    IF ok
    THEN /\ buffer' = Append(buffer, element)
         /\ pc' = next
         /\ panic' = panic
         /\ outfile' = outfile
    ELSE /\ buffer' = buffer
         /\ pc' = "panicked"
         /\ panic' = message
         /\ outfile' = IF panic_unwind THEN Drop(buffer) ELSE outfile

\* line 10: root.fill(&WHITE).unwrap()
Fill ==
    /\ pc = "fill"
    /\ \E ok \in BOOLEAN : Unwrap(ok, "background", "build", "fill")
    /\ UNCHANGED <<inputs, summary, stdout, axis, bars>>

\* lines 12-23: max_value, caption, build_cartesian_2d(0..3, 0.0..max_value)
BuildChart ==
    /\ pc = "build"
    /\ \E ok \in BOOLEAN :
         /\ Unwrap(ok, "caption", "mesh", "build_cartesian_2d")
         /\ axis' = IF ok THEN <<Zero, max_value(summary[1])>> ELSE axis
    /\ UNCHANGED <<inputs, summary, stdout, bars>>

\* lines 25-37: configure_mesh() ... draw().unwrap()
DrawMesh ==
    /\ pc = "mesh"
    /\ \E ok \in BOOLEAN : Unwrap(ok, "axes", "mean_bar", "mesh")
    /\ UNCHANGED <<inputs, summary, stdout, axis, bars>>

\* lines 39-47: the mean bar at position 1
DrawMeanBar ==
    /\ pc = "mean_bar"
    /\ \E ok \in BOOLEAN :
         /\ Unwrap(ok, "mean_bar", "variance_bar", "draw_series Mean")
         /\ bars' = IF ok THEN Append(bars, Bar("Mean", 1, summary[1].mean))
                    ELSE bars
    /\ UNCHANGED <<inputs, summary, stdout, axis>>

\* lines 49-57: the variance bar at position 2
DrawVarianceBar ==
    /\ pc = "variance_bar"
    /\ \E ok \in BOOLEAN :
         /\ Unwrap(ok, "variance_bar", "legend", "draw_series Variance")
         /\ bars' = IF ok
                    THEN Append(bars, Bar("Variance", 2, summary[1].variance))
                    ELSE bars
    /\ UNCHANGED <<inputs, summary, stdout, axis>>

\* lines 59-64: configure_series_labels() ... draw().unwrap()
DrawLegend ==
    /\ pc = "legend"
    /\ \E ok \in BOOLEAN : Unwrap(ok, "legend", "println", "legend")
    /\ UNCHANGED <<inputs, summary, stdout, axis, bars>>

ChartSaved == [line |-> "Chart saved to", value |-> Zero]

\* line 66: println!("Chart saved to {}", output_path)
PrintSaved ==
    /\ pc = "println"
    /\ stdout' = Append(stdout, ChartSaved)
    /\ pc' = "drop"
    /\ UNCHANGED <<inputs, outfile, panic, summary, buffer, axis, bars>>

\* line 67: the end of the scope drops chart and root, and with them the
\* backend, which writes the file now.
Return ==
    /\ pc = "drop"
    /\ outfile' = Drop(buffer)
    /\ pc' = "done"
    /\ UNCHANGED <<inputs, panic, summary, stdout, buffer, axis, bars>>

Next ==
    \/ ProcessData
    \/ CreateBackend
    \/ Fill
    \/ BuildChart
    \/ DrawMesh
    \/ DrawMeanBar
    \/ DrawVarianceBar
    \/ DrawLegend
    \/ PrintSaved
    \/ Return

Spec == Init /\ [][Next]_vars

\* ------------------------------------------------------------ properties
\* The inputs, read off the CSV cells themselves.
NumericCells == {i \in 1..Len(column) : column[i].kind = "num"}

RECURSIVE SumCells(_)
SumCells(S) ==
    IF S = {} THEN 0
    ELSE LET i == CHOOSE j \in S : TRUE
         IN  column[i].val + SumCells(S \ {i})

RECURSIVE SumSquares(_)
SumSquares(S) ==
    IF S = {} THEN 0
    ELSE LET i == CHOOSE j \in S : TRUE
         IN  column[i].val * column[i].val + SumSquares(S \ {i})

Selected == file = "readable" /\ column_name = HeaderName

Ran == pc # "process_data"

\* C1: when process_data fails (file unreadable, column name absent, mean
\* or variance unavailable) the run ends there with no DataSummary, the
\* chart code never starts and the output file is as it was before; a
\* column name that is not in the file fails with "Column not found".
C1_FailedProcessDataLeavesNoChart ==
    (Ran /\ (\/ ~Selected
             \/ Cardinality(NumericCells) < 2
             \/ panic \in ProcessPanics))
    => /\ pc = "panicked"
       /\ panic \in ProcessPanics
       /\ summary = None
       /\ buffer = << >>
       /\ outfile = outfile0
       /\ (file = "readable" /\ column_name # HeaderName
             => panic = "Column not found")

C1_Witness ==
    /\ pc = "panicked"
    /\ panic = "Column not found"
    /\ Cardinality(NumericCells) >= 2
    /\ outfile0 = StaleChart
    /\ outfile = StaleChart

\* C2: a selected column with a cell that cannot be coerced to f64 makes
\* process_data fail: no DataSummary is returned.
C2_NonCoercibleIsError ==
    (Ran /\ Selected /\ \E i \in 1..Len(column) : column[i].kind = "text")
    => summary = None /\ panic \in ProcessPanics

\* C3: a selected column with fewer than 2 values after coercion makes
\* process_data fail on the mean or the variance, and no returned
\* DataSummary has an undefined (NaN or infinite) variance.
C3_FewerThanTwoValuesFails ==
    /\ (Ran /\ Selected /\ Cardinality(NumericCells) < 2)
         => /\ summary = None
            /\ panic \in {"Failed to compute mean",
                          "Failed to compute variance"}
    /\ summary # None => IsFinite(summary[1].variance)

C3_Witness ==
    /\ pc = "panicked"
    /\ panic = "Failed to compute variance"
    /\ Cardinality(NumericCells) = 1
    /\ Len(column) > 1

\* C4: for a column of n >= 2 numbers process_data returns
\* mean = sum / n and variance = sum of squared deviations / (n - 1),
\* stated here as n * (n - 1) * variance = n * (sum of squares) - sum^2;
\* [1,2,3,4,5] gives 3 and 5/2, [10,20,30,40] gives 25 and 500/3.
C4_MeanAndSampleVariance ==
    (Ran /\ Selected /\ Len(column) >= 2
         /\ Cardinality(NumericCells) = Len(column))
    => LET n == Len(column)
           S == SumCells(NumericCells)
           SS == SumSquares(NumericCells)
       IN  /\ summary # None
           /\ summary[1].mean[2] > 0
           /\ summary[1].variance[2] > 0
           /\ summary[1].mean[1] * n = S * summary[1].mean[2]
           /\ summary[1].variance[1] * n * (n - 1)
                = (n * SS - S * S) * summary[1].variance[2]
           /\ (column = NumCol(<<1, 2, 3, 4, 5>>)
                 => summary[1] = [mean |-> <<3, 1>>, variance |-> <<5, 2>>])
           /\ (column = NumCol(<<10, 20, 30, 40>>)
                 => summary[1] = [mean |-> <<25, 1>>,
                                  variance |-> <<500, 3>>])

C4_Witness ==
    /\ column = NumCol(<<10, 20, 30, 40>>)
    /\ summary = Some([mean |-> <<25, 1>>, variance |-> <<500, 3>>])
    /\ pc = "done"

\* C5: every returned DataSummary has variance >= 0, and variance = 0 with
\* mean = v when all values of the column equal v.
C5_VarianceNonNegative ==
    summary # None
    => /\ F64Le(Zero, summary[1].variance)
       /\ \A v \in Values \cup {10, 20, 30, 40} :
            (\A i \in NumericCells : column[i].val = v)
            => summary[1] = [mean |-> <<v, 1>>, variance |-> Zero]

C5_Witness ==
    /\ summary # None
    /\ Len(column) >= 2
    /\ \A i \in 1..Len(column) : column[i] = Num(MaxVal)
    /\ summary[1].variance = Zero

\* C6: without a writable output directory create_charts fails: the call
\* never completes normally.
C6_WriteFailureReachesCaller ==
    ~output_dir => ~(pc = "done" /\ panic = NoPanic)

\* C7: after a failed drawing step the output file is as it was before or
\* a complete chart.
C7_NoPartialFileAfterFailure ==
    (pc = "panicked" /\ panic \notin ProcessPanics)
    => outfile = outfile0 \/ outfile = CompleteChart

\* C8: the chart's vertical axis goes from 0 to exactly 1.2 times the
\* larger of mean and variance, without a minimum span: it is 0..0 when
\* mean = 0 and variance = 0.
C8_AxisUpperBound ==
    axis # << >>
    => LET m == summary[1].mean
           v == summary[1].variance
           larger == IF m[1] * v[2] <= v[1] * m[2] THEN v ELSE m
       IN  /\ axis[1] = Zero
           /\ axis[2][2] > 0
           /\ HeadroomDen * axis[2][1] * larger[2]
                = HeadroomNum * larger[1] * axis[2][2]
           /\ (m = Zero /\ v = Zero => axis[2] = Zero)

C8_Witness ==
    /\ axis = <<Zero, Zero>>
    /\ summary = Some([mean |-> Zero, variance |-> Zero])

\* C9: both bars lie inside the vertical axis range, and the range is not
\* empty.
C9_BarsInsideAxis ==
    Len(bars) = 2
    => /\ F64Lt(axis[1], axis[2])
       /\ \A i \in 1..2 :
            F64Le(axis[1], bars[i].y1) /\ F64Le(bars[i].y1, axis[2])

\* C10: the line "Chart saved to <path>" is printed only once the file at
\* that path holds the complete chart.
C10_SavedLineAfterWrite ==
    (\E i \in 1..Len(stdout) : stdout[i] = ChartSaved)
    => outfile = CompleteChart

====
